---- MODULE Spec2Model ----
(***************************************************************************)
(* Model of the owncast-commands chat service: configuration validation    *)
(* and dial (NewChatService), the read loop (listenRead), the write loop   *)
(* (listenWrite) with its per-CHAT goroutines, the transport writes        *)
(* (send, and the close frame of Close) and the shutdown wait (Close).     *)
(***************************************************************************)
EXTENDS Naturals, Sequences, FiniteSets

\* ---------------------------------------------------------------- bounds

\* How many inbound messages the read loop decodes in one run of the model.
MaxRecv == 2

\* ------------------------------------------------------------- constants

CHAT == "CHAT"
PING == "PING"
PONG == "PONG"
SYSTEM == "SYSTEM"
NAME_CHANGE == "NAME_CHANGE"
BotName == "Bot"

\* The nil *Message.
Null == [type |-> "<nil>"]

\* A frame the peer cannot decode: what two overlapping writes may leave on
\* the transport.
Garbled == [type |-> "<garbled>"]

\* ---------------------------------------------------------------- Message

\* Message{...}: the zero value of every field but those given.
Message(author, body, id, type) ==
    [author |-> author, body |-> body, id |-> id, type |-> type,
     visible |-> FALSE, timestamp |-> 0]

\* &Message{Type: PONG}
PongMessage == Message("", "", "", PONG)

\* The messages the peer sends in the model: one of each routed kind, a CHAT
\* that is a known command, one that is an unknown command and one that is
\* no command, and three types outside the switch's cases.
Inbound ==
    { [author |-> "alice", body |-> "ping?", id |-> "p1", type |-> PING,
       visible |-> TRUE, timestamp |-> 7],
      [author |-> "alice", body |-> "<p>!help</p>", id |-> "c1", type |-> CHAT,
       visible |-> TRUE, timestamp |-> 7],
      [author |-> "bob", body |-> "<p>!nope</p>", id |-> "c2", type |-> CHAT,
       visible |-> TRUE, timestamp |-> 8],
      [author |-> "bob", body |-> "hello", id |-> "c3", type |-> CHAT,
       visible |-> TRUE, timestamp |-> 9],
      Message("", "joined", "s1", SYSTEM),
      Message("alice", "", "n1", NAME_CHANGE),
      Message("", "", "", PONG),
      Message("", "", "", "FOO"),
      Message("", "", "", "") }

\* ------------------------------------------------------------------ Config

Schemes == {"", "wss", "1ws"}
Hosts == {"", "stream.skynewz.dev", "bad host"}
Paths == {"/entry", "/%zz"}

Configs ==
    [Scheme : Schemes, Host : Hosts, Path : Paths, CommandExecutorFunc : BOOLEAN]

\* url.Parse(scheme://host path) on the strings of the model: a scheme that
\* is empty or starts with a digit, a host with a space and a path with a
\* broken escape do not parse.
UrlParses(scheme, host, path) ==
    /\ scheme \notin {"", "1ws"}
    /\ host # "bad host"
    /\ path # "/%zz"

\* A validate that forgets the host check.
validateNoHost(c) ==
    IF c.Scheme = "" THEN "missing websocket scheme"
    ELSE IF ~c.CommandExecutorFunc THEN "missing command executor function"
    ELSE IF ~UrlParses(c.Scheme, c.Host, c.Path) THEN "invalid websocket url"
    ELSE "nil"

\* Config.validate: the error returned, "nil" for none.
validate(c) ==
    IF c.Scheme = "" THEN "missing websocket scheme"
    ELSE IF c.Host = "" THEN "missing websocket host"
    ELSE IF ~c.CommandExecutorFunc THEN "missing command executor function"
    ELSE IF ~UrlParses(c.Scheme, c.Host, c.Path) THEN "invalid websocket url"
    ELSE "nil"

\* ----------------------------------------------------- processing function

\* The triggers of the loaded command file.
commands == {"!help"}

\* commandRegexp: the trigger of a body that is <p>!word</p>, "" otherwise.
commandOf(body) ==
    CASE body = "<p>!help</p>" -> "!help"
      [] body = "<p>!nope</p>" -> "!nope"
      [] OTHER -> ""

\* fmt.Sprintf("@%s %s", input.Author, r) for the rendered template of !help.
replyBody(author) ==
    CASE author = "alice" -> "@alice commands: !help"
      [] author = "bob" -> "@bob commands: !help"
      [] OTHER -> "@ commands: !help"

\* processMessageCommand, the ProcessMessageFunc main configures: the reply
\* to a known command, nil for anything else.
jobFunc(m) ==
    IF commandOf(m.body) = "" THEN Null
    ELSE IF commandOf(m.body) \notin commands THEN Null
    ELSE Message(BotName, replyBody(m.author), "", CHAT)

\* ---------------------------------------------------------------- channels

\* Channels made with room for one message.
chanCapBuffered == 0 + 1

\* make(chan *Message): the capacity of pingCh and of chatCh.
chanCap == 0

\* ------------------------------------------------------------------- state

VARIABLES
    config,      \* the Config handed to NewChatService
    newRet,      \* NewChatService: "pending", "ok", "configErr", "dialErr"
    configErr,   \* the error validate returned
    dialCount,   \* calls of websocket.DefaultDialer.Dial
    session,     \* whether a *ChatService exists
    listening,   \* Listen has started the two loops
    rpc,         \* listenRead: "idle", "read", "sendPing", "sendChat", "done"
    rmsg,        \* the message listenRead is routing
    rexit,       \* how listenRead ended: "none", "normal", "abnormal"
    recvd,       \* every message listenRead decoded, in order
    doneClosed,  \* doneCh is closed
    doneCloses,  \* calls of close(doneCh)
    pingCh,      \* the messages buffered in pingCh
    chatCh,      \* the messages buffered in chatCh
    wpc,         \* listenWrite: "idle", "select", "gotPing", "sending", "exited"
    pingsTaken,  \* receives from pingCh
    pingLate,    \* whether doneCh was closed when the last PING was taken
    workers,     \* the goroutines listenWrite spawned, in spawn order
    jobCalls,    \* every call of jobFunc: the goroutine and its argument
    sent,        \* every call of send: who, what, whether doneCh was closed
                 \* then, and whether it was when its PING or CHAT was taken,
                 \* whether Close had returned, and what send returned
    writing,     \* who is inside a write to the transport
    raced,       \* whose write in progress has overlapped another
    wire,        \* the frames on the transport, in order of completion
    warnings,    \* log.Warningf calls
    errlogs,     \* log Errorln calls
    cpc,         \* Close: "idle", "writing", "select", "blocked", "returned"
    cret,        \* what Close returned: "none", "nil", "timeout", "ioerr"
    cwres,       \* what the write of the close frame returned
    cwait,       \* how Close's select was decided: "none", "ready", "woken"
    csnap,       \* what was ready when Close reached its select
    ctxDone,     \* the deadline of Close's context has elapsed
    firstFired,  \* which of doneCh and ctx.Done() fired first
    crashed      \* the process panicked

vars ==
    <<config, newRet, configErr, dialCount, session, listening, rpc, rmsg,
      rexit, recvd, doneClosed, doneCloses, pingCh, chatCh, wpc, pingsTaken,
      pingLate, workers, jobCalls, sent, writing, raced, wire, warnings, errlogs, cpc,
      cret, cwres, cwait, csnap, ctxDone, firstFired, crashed>>

connVars == <<config, newRet, configErr, dialCount, session, listening>>
readVars == <<rpc, rmsg, rexit, recvd, doneClosed, doneCloses>>
chanVars == <<pingCh, chatCh>>
writeVars == <<wpc, pingsTaken, pingLate>>
workVars == <<workers, jobCalls>>
wireVars == <<sent, writing, raced, wire>>
logVars == <<warnings, errlogs>>
closeVars == <<cpc, cret, cwres, cwait, csnap>>

Init ==
    /\ config \in Configs
    /\ newRet = "pending"
    /\ configErr = "nil"
    /\ dialCount = 0
    /\ session = FALSE
    /\ listening = FALSE
    /\ rpc = "idle"
    /\ rmsg = Null
    /\ rexit = "none"
    /\ recvd = <<>>
    /\ doneClosed = FALSE
    /\ doneCloses = 0
    /\ pingCh = <<>>
    /\ chatCh = <<>>
    /\ wpc = "idle"
    /\ pingsTaken = 0
    /\ pingLate = FALSE
    /\ workers = <<>>
    /\ jobCalls = <<>>
    /\ sent = <<>>
    /\ writing = {}
    /\ raced = {}
    /\ wire = <<>>
    /\ warnings = 0
    /\ errlogs = 0
    /\ cpc = "idle"
    /\ cret = "none"
    /\ cwres = "none"
    /\ cwait = "none"
    /\ csnap = {}
    /\ ctxDone = FALSE
    /\ firstFired = "none"
    /\ crashed = FALSE

\* ------------------------------------------------------ connection manager

\* NewChatService: validate, then dial; the dial succeeds or fails.
NewChatService ==
    /\ ~crashed
    /\ newRet = "pending"
    /\ IF validate(config) # "nil"
       THEN /\ newRet' = "configErr"
            /\ configErr' = validate(config)
            /\ UNCHANGED <<dialCount, session>>
       ELSE /\ dialCount' = dialCount + 1
            /\ configErr' = "nil"
            /\ \E dialed \in BOOLEAN :
                 /\ newRet' = IF dialed THEN "ok" ELSE "dialErr"
                 /\ session' = dialed
    /\ UNCHANGED <<config, listening>>
    /\ UNCHANGED <<chanVars, readVars, writeVars, workVars, wireVars, logVars, closeVars,
                   ctxDone, firstFired, crashed>>

\* Listen: go c.listenRead(); go c.listenWrite().
Listen ==
    /\ ~crashed
    /\ session
    /\ ~listening
    /\ listening' = TRUE
    /\ rpc' = "read"
    /\ wpc' = "select"
    /\ UNCHANGED <<config, newRet, configErr, dialCount, session>>
    /\ UNCHANGED <<rmsg, rexit, recvd, doneClosed, doneCloses, pingsTaken,
                   pingLate, chanVars>>
    /\ UNCHANGED <<workVars, wireVars, logVars, closeVars, ctxDone, firstFired,
                   crashed>>

\* --------------------------------------------------------------- transport

Writer == [kind |-> "writer", n |-> 0]
Closer == [kind |-> "closer", n |-> 0]
Worker(i) == [kind |-> "worker", n |-> i]

\* A write to the transport starts: it overlaps every write in progress.
BeginWrite(a) ==
    /\ writing' = writing \cup {a}
    /\ raced' = IF writing # {} THEN raced \cup writing \cup {a} ELSE raced

\* How a write can end: with nil or with an error; a write that overlapped
\* another is a data race on the connection, which can also leave a broken
\* frame or panic ("concurrent write to websocket connection").
Outcomes(a) ==
    IF a \in raced THEN {"ok", "err", "garbled", "panic"} ELSE {"ok", "err"}

\* A write to the transport ends with outcome o.
EndWrite(a, frame, o) ==
    /\ writing' = writing \ {a}
    /\ raced' = raced \ {a}
    /\ wire' = CASE o = "ok" -> Append(wire, [by |-> a, msg |-> frame])
                 [] o = "garbled" -> Append(wire, [by |-> a, msg |-> Garbled])
                 [] OTHER -> wire
    /\ crashed' = (o = "panic")

\* ChatService.send is entered: c.ws.WriteJSON(message) starts.
SendBegin(a, m, late) ==
    /\ sent' = Append(sent, [by |-> a, msg |-> m, closed |-> doneClosed,
                             late |-> late, afterClose |-> cpc = "returned",
                             res |-> "pending"])
    /\ BeginWrite(a)
    /\ UNCHANGED wire

\* The call of send by a that has not returned yet.
OpenSend(a) == CHOOSE k \in 1..Len(sent) : sent[k].by = a /\ sent[k].res = "pending"

\* ChatService.send returns: nil unless the write ended with an error.
SendEnd(a, m, o) ==
    /\ EndWrite(a, m, o)
    /\ sent' = [sent EXCEPT ![OpenSend(a)].res =
                  CASE o = "err" -> "err" [] o = "panic" -> "panic" [] OTHER -> "nil"]

\* --------------------------------------------------------------- read loop

\* A select whose ctx.Done() case returns nil as well.
closeResultAlwaysNil(ch) == "nil"

\* What Close returns for the case its select takes: nil for doneCh,
\* ErrCloseConnectionTimeout for ctx.Done().
closeResult(ch) == IF ch = "done" THEN "nil" ELSE "timeout"

\* A switch that has lost its SYSTEM and NAME_CHANGE cases.
routeNoIgnore(type) ==
    CASE type = PING -> "ping"
      [] type = CHAT -> "chat"
      [] OTHER -> "warn"

\* A switch that has lost its default case.
routeNoDefault(type) ==
    CASE type = PING -> "ping"
      [] type = CHAT -> "chat"
      [] OTHER -> "ignore"

\* The switch of listenRead on message.Type.
route(type) ==
    CASE type = PING -> "ping"
      [] type = CHAT -> "chat"
      [] type = SYSTEM -> "ignore"
      [] type = NAME_CHANGE -> "ignore"
      [] OTHER -> "warn"

\* listenRead decodes one message and dispatches it: a PING or a CHAT is
\* sent on its channel; with no room in the channel the loop blocks in the
\* send until the write loop receives.
ReadMessage(m) ==
    /\ ~crashed
    /\ rpc = "read"
    /\ Len(recvd) < MaxRecv
    /\ recvd' = Append(recvd, m)
    /\ rmsg' = m
    /\ CASE route(m.type) = "ping" ->
              /\ IF Len(pingCh) < chanCap
                 THEN pingCh' = Append(pingCh, m) /\ rpc' = "read"
                 ELSE pingCh' = pingCh /\ rpc' = "sendPing"
              /\ UNCHANGED chatCh
         [] route(m.type) = "chat" ->
              /\ IF Len(chatCh) < chanCap
                 THEN chatCh' = Append(chatCh, m) /\ rpc' = "read"
                 ELSE chatCh' = chatCh /\ rpc' = "sendChat"
              /\ UNCHANGED pingCh
         [] OTHER -> rpc' = "read" /\ UNCHANGED chanVars
    /\ warnings' = IF route(m.type) = "warn" THEN warnings + 1 ELSE warnings
    /\ UNCHANGED <<rexit, doneClosed, doneCloses, errlogs>>
    /\ UNCHANGED <<connVars, writeVars, workVars, wireVars, closeVars, ctxDone,
                   firstFired, crashed>>

\* A read loop that signals completion on a normal closure only.
ReadEndsQuietly(normal) ==
    /\ rexit' = IF normal THEN "normal" ELSE "abnormal"
    /\ errlogs' = IF normal THEN errlogs ELSE errlogs + 1
    /\ rpc' = "done"
    /\ doneClosed' = normal
    /\ doneCloses' = IF normal THEN doneCloses + 1 ELSE doneCloses
    /\ firstFired' = IF normal /\ firstFired = "none" THEN "done" ELSE firstFired
    /\ IF normal /\ cpc = "blocked"
       THEN cpc' = "returned" /\ cret' = closeResult("done") /\ cwait' = "woken"
       ELSE UNCHANGED <<cpc, cret, cwait>>

\* A read loop whose error branch closes doneCh and forgets to return.
ReadEndsAndGoesOn(normal) ==
    /\ rexit' = IF normal THEN "normal" ELSE "abnormal"
    /\ errlogs' = IF normal THEN errlogs ELSE errlogs + 1
    /\ rpc' = IF doneClosed THEN "done" ELSE "read"
    /\ doneClosed' = TRUE
    /\ doneCloses' = IF doneClosed THEN doneCloses ELSE doneCloses + 1
    /\ firstFired' = IF firstFired = "none" THEN "done" ELSE firstFired
    /\ IF cpc = "blocked"
       THEN cpc' = "returned" /\ cret' = closeResult("done") /\ cwait' = "woken"
       ELSE UNCHANGED <<cpc, cret, cwait>>

\* ReadJSON fails, with a normal closure or with anything else: the error is
\* logged unless it is a normal closure, the loop returns and the deferred
\* close(c.doneCh) runs, which wakes a Close blocked in its select.
ReadEnds(normal) ==
    /\ rexit' = IF normal THEN "normal" ELSE "abnormal"
    /\ errlogs' = IF normal THEN errlogs ELSE errlogs + 1
    /\ rpc' = "done"
    /\ doneClosed' = TRUE
    /\ doneCloses' = doneCloses + 1
    /\ firstFired' = IF firstFired = "none" THEN "done" ELSE firstFired
    /\ IF cpc = "blocked"
       THEN cpc' = "returned" /\ cret' = closeResult("done") /\ cwait' = "woken"
       ELSE UNCHANGED <<cpc, cret, cwait>>

ReadError(normal) ==
    /\ ~crashed
    /\ rpc = "read"
    /\ ReadEnds(normal)
    /\ UNCHANGED <<rmsg, recvd, warnings, cwres, csnap, ctxDone, chanVars>>
    /\ UNCHANGED <<connVars, writeVars, workVars, wireVars, crashed>>

\* -------------------------------------------------------------- write loop

\* case <-c.pingCh: the receive takes the oldest buffered message, and a
\* read loop blocked in its send then puts its message in the freed room;
\* with nothing buffered it is the rendezvous with the read loop's send.
WriteTakesPing ==
    /\ ~crashed
    /\ wpc = "select"
    /\ pingCh # <<>> \/ rpc = "sendPing"
    /\ wpc' = "gotPing"
    /\ pingsTaken' = pingsTaken + 1
    /\ pingLate' = doneClosed
    /\ pingCh' = IF pingCh = <<>> THEN pingCh
                 ELSE IF rpc = "sendPing" THEN Append(Tail(pingCh), rmsg)
                 ELSE Tail(pingCh)
    /\ rpc' = IF rpc = "sendPing" THEN "read" ELSE rpc
    /\ UNCHANGED chatCh
    /\ UNCHANGED <<rmsg, rexit, recvd, doneClosed, doneCloses>>
    /\ UNCHANGED <<connVars, workVars, wireVars, logVars, closeVars, ctxDone,
                   firstFired, crashed>>

\* A write loop that echoes the PING it took.
pongEcho == [rmsg EXCEPT !.type = PONG]

\* m := &Message{Type: PONG}
pongReply == PongMessage

\* c.send(m) of the PONG is entered.
WritePongBegin ==
    /\ ~crashed
    /\ wpc = "gotPing"
    /\ wpc' = "sending"
    /\ SendBegin(Writer, pongReply, pingLate)
    /\ UNCHANGED <<pingsTaken, pingLate, crashed>>
    /\ UNCHANGED <<connVars, chanVars, readVars, workVars, logVars, closeVars, ctxDone,
                   firstFired>>

\* A write loop that returns when its send fails.
afterPongSendReturnOnErr(o) == IF o = "err" THEN "exited" ELSE "select"

\* if err := c.send(m); err != nil { log...; continue }: both ways lead back
\* to the select.
afterPongSend(o) == "select"

\* c.send(m) of the PONG returns: an error is logged, and the loop goes on.
WritePongEnd(o) ==
    /\ ~crashed
    /\ wpc = "sending"
    /\ o \in Outcomes(Writer)
    /\ wpc' = afterPongSend(o)
    /\ SendEnd(Writer, pongReply, o)
    /\ errlogs' = IF o = "err" THEN errlogs + 1 ELSE errlogs
    /\ UNCHANGED <<pingsTaken, pingLate, warnings>>
    /\ UNCHANGED <<connVars, chanVars, readVars, workVars, closeVars, ctxDone, firstFired>>

\* A write loop that takes the next CHAT only once every goroutine it
\* spawned has ended.
WriteTakesChatOneAtATime ==
    /\ ~crashed
    /\ wpc = "select"
    /\ chatCh # <<>> \/ rpc = "sendChat"
    /\ \A i \in 1..Len(workers) : workers[i].pc = "done"
    /\ workers' = Append(workers,
                         [msg |-> IF chatCh = <<>> THEN rmsg ELSE Head(chatCh),
                          pc |-> "start", out |-> Null, res |-> "none",
                          late |-> doneClosed, afterClose |-> cpc = "returned"])
    /\ chatCh' = IF chatCh = <<>> THEN chatCh
                 ELSE IF rpc = "sendChat" THEN Append(Tail(chatCh), rmsg)
                 ELSE Tail(chatCh)
    /\ rpc' = IF rpc = "sendChat" THEN "read" ELSE rpc
    /\ UNCHANGED pingCh
    /\ UNCHANGED <<rmsg, rexit, recvd, doneClosed, doneCloses, jobCalls>>
    /\ UNCHANGED <<connVars, writeVars, wireVars, logVars, closeVars, ctxDone,
                   firstFired, crashed>>

\* case input := <-c.chatCh: the receive (the oldest buffered message, or the
\* rendezvous with the read loop's send), and the go statement: a new
\* goroutine holds the message.
WriteTakesChat ==
    /\ ~crashed
    /\ wpc = "select"
    /\ chatCh # <<>> \/ rpc = "sendChat"
    /\ workers' = Append(workers,
                         [msg |-> IF chatCh = <<>> THEN rmsg ELSE Head(chatCh),
                          pc |-> "start", out |-> Null, res |-> "none",
                          late |-> doneClosed, afterClose |-> cpc = "returned"])
    /\ chatCh' = IF chatCh = <<>> THEN chatCh
                 ELSE IF rpc = "sendChat" THEN Append(Tail(chatCh), rmsg)
                 ELSE Tail(chatCh)
    /\ rpc' = IF rpc = "sendChat" THEN "read" ELSE rpc
    /\ UNCHANGED pingCh
    /\ UNCHANGED <<rmsg, rexit, recvd, doneClosed, doneCloses, jobCalls>>
    /\ UNCHANGED <<connVars, writeVars, wireVars, logVars, closeVars, ctxDone,
                   firstFired, crashed>>

\* A write loop whose doneCh case breaks out of the select only, and so
\* goes round the for loop again.
WriteBreaksSelectOnly ==
    /\ ~crashed
    /\ wpc = "select"
    /\ doneClosed
    /\ UNCHANGED vars

\* A write loop whose select has a default case that returns: it ends as soon
\* as nothing is waiting on a channel.
WriteExitsWhenIdle ==
    /\ ~crashed
    /\ wpc = "select"
    /\ doneClosed \/ rpc \notin {"sendPing", "sendChat"}
    /\ wpc' = "exited"
    /\ UNCHANGED <<pingsTaken, pingLate, connVars, chanVars, readVars, workVars, wireVars,
                   logVars, closeVars, ctxDone, firstFired, crashed>>

\* case <-c.doneCh: return.
WriteExits ==
    /\ ~crashed
    /\ wpc = "select"
    /\ doneClosed
    /\ wpc' = "exited"
    /\ UNCHANGED <<pingsTaken, pingLate, connVars, chanVars, readVars, workVars, wireVars,
                   logVars, closeVars, ctxDone, firstFired, crashed>>

\* ------------------------------------------------- content-processing units

\* A goroutine that calls the processing function on the PONG constant
\* instead of its argument.
jobArgWrong(m) == PongMessage

\* The argument of c.jobFunc in the goroutine: its parameter m.
jobArg(m) == m

\* output := c.jobFunc(m): a nil output ends the goroutine.
WorkerJob(i) ==
    /\ ~crashed
    /\ i \in 1..Len(workers)
    /\ workers[i].pc = "start"
    /\ jobCalls' = Append(jobCalls,
                          [worker |-> i, arg |-> jobArg(workers[i].msg),
                           closed |-> doneClosed,
                           afterClose |-> cpc = "returned"])
    /\ LET out == jobFunc(jobArg(workers[i].msg))
       IN workers' = [workers EXCEPT ![i].out = out,
                        ![i].pc = IF out = Null THEN "done" ELSE "ready"]
    /\ UNCHANGED <<connVars, chanVars, readVars, writeVars, wireVars, logVars, closeVars,
                   ctxDone, firstFired, crashed>>

\* A goroutine that gives up its reply once Close has returned.
WorkerSendBeginUnlessClosed(i) ==
    /\ ~crashed
    /\ i \in 1..Len(workers)
    /\ workers[i].pc = "ready"
    /\ cpc # "returned"
    /\ workers' = [workers EXCEPT ![i].pc = "sending"]
    /\ SendBegin(Worker(i), workers[i].out, workers[i].late)
    /\ UNCHANGED <<jobCalls, crashed>>
    /\ UNCHANGED <<connVars, chanVars, readVars, writeVars, logVars, closeVars, ctxDone,
                   firstFired>>

\* c.send(output) is entered.
WorkerSendBegin(i) ==
    /\ ~crashed
    /\ i \in 1..Len(workers)
    /\ workers[i].pc = "ready"
    /\ workers' = [workers EXCEPT ![i].pc = "sending"]
    /\ SendBegin(Worker(i), workers[i].out, workers[i].late)
    /\ UNCHANGED <<jobCalls, crashed>>
    /\ UNCHANGED <<connVars, chanVars, readVars, writeVars, logVars, closeVars, ctxDone,
                   firstFired>>

\* c.send(output) returns: an error is logged; the goroutine ends.
WorkerSendEnd(i, o) ==
    /\ ~crashed
    /\ i \in 1..Len(workers)
    /\ workers[i].pc = "sending"
    /\ o \in Outcomes(Worker(i))
    /\ workers' = [workers EXCEPT ![i].pc = "done",
                     ![i].res = IF o = "err" THEN "err" ELSE "nil"]
    /\ SendEnd(Worker(i), workers[i].out, o)
    /\ errlogs' = IF o = "err" THEN errlogs + 1 ELSE errlogs
    /\ UNCHANGED <<jobCalls, warnings>>
    /\ UNCHANGED <<connVars, chanVars, readVars, writeVars, closeVars, ctxDone, firstFired>>

\* ------------------------------------------------------------------- Close

\* Close is called: c.ws.WriteMessage(websocket.CloseMessage, ...) starts.
CloseBegin ==
    /\ ~crashed
    /\ listening
    /\ cpc = "idle"
    /\ cpc' = "writing"
    /\ BeginWrite(Closer)
    /\ UNCHANGED <<cret, cwres, cwait, csnap, sent, wire>>
    /\ UNCHANGED <<connVars, chanVars, readVars, writeVars, workVars, logVars, ctxDone,
                   firstFired, crashed>>

\* A Close that goes on to its select after a failed write of the close frame.
afterCloseWriteIgnoringErr(o) == "select"

\* if err != nil { return fmt.Errorf(...) }: where Close goes after the write.
afterCloseWrite(o) == IF o = "err" THEN "returned" ELSE "select"

\* WriteMessage returns: with an error Close returns it at once.
CloseWriteEnd(o) ==
    /\ ~crashed
    /\ cpc = "writing"
    /\ o \in Outcomes(Closer)
    /\ EndWrite(Closer, [type |-> "<close>"], o)
    /\ cpc' = afterCloseWrite(o)
    /\ cret' = IF afterCloseWrite(o) = "returned" THEN "ioerr" ELSE cret
    /\ cwres' = IF o = "err" THEN "err" ELSE "nil"
    /\ UNCHANGED <<cwait, csnap, sent>>
    /\ UNCHANGED <<connVars, chanVars, readVars, writeVars, workVars, logVars, ctxDone,
                   firstFired>>

\* The channels of Close's select that are ready.
closeReady ==
    (IF doneClosed THEN {"done"} ELSE {}) \cup (IF ctxDone THEN {"ctx"} ELSE {})

\* Close reaches its select: it takes a ready case, or blocks until the first
\* of doneCh and ctx.Done() fires.
CloseSelect ==
    /\ ~crashed
    /\ cpc = "select"
    /\ csnap' = closeReady
    /\ IF closeReady = {}
       THEN /\ cpc' = "blocked"
            /\ UNCHANGED <<cret, cwait>>
       ELSE /\ \E ch \in closeReady : cret' = closeResult(ch)
            /\ cpc' = "returned"
            /\ cwait' = "ready"
    /\ UNCHANGED <<cwres, connVars, chanVars, readVars, writeVars, workVars, wireVars, logVars,
                   ctxDone, firstFired, crashed>>

\* The deadline of the context handed to Close elapses, which wakes a Close
\* blocked in its select.
CtxExpire ==
    /\ ~crashed
    /\ cpc \in {"writing", "select", "blocked"}
    /\ ~ctxDone
    /\ ctxDone' = TRUE
    /\ firstFired' = IF firstFired = "none" THEN "ctx" ELSE firstFired
    /\ IF cpc = "blocked"
       THEN cpc' = "returned" /\ cret' = closeResult("ctx") /\ cwait' = "woken"
       ELSE UNCHANGED <<cpc, cret, cwait>>
    /\ UNCHANGED <<cwres, csnap, connVars, chanVars, readVars, writeVars, workVars, wireVars,
                   logVars, crashed>>

\* ----------------------------------------------------------- specification

AllOutcomes == {"ok", "err", "garbled", "panic"}

Next ==
    \/ NewChatService
    \/ Listen
    \/ \E m \in Inbound : ReadMessage(m)
    \/ \E normal \in BOOLEAN : ReadError(normal)
    \/ WriteTakesPing
    \/ WritePongBegin
    \/ \E o \in AllOutcomes : WritePongEnd(o)
    \/ WriteTakesChat
    \/ WriteExits
    \/ \E i \in 1..MaxRecv : WorkerJob(i)
    \/ \E i \in 1..MaxRecv : WorkerSendBegin(i)
    \/ \E i \in 1..MaxRecv, o \in AllOutcomes : WorkerSendEnd(i, o)
    \/ CloseBegin
    \/ \E o \in AllOutcomes : CloseWriteEnd(o)
    \/ CloseSelect
    \/ CtxExpire

Spec == Init /\ [][Next]_vars

\* The steps of the listenWrite goroutine.
WriteLoop ==
    \/ WriteTakesPing
    \/ WritePongBegin
    \/ \E o \in AllOutcomes : WritePongEnd(o)
    \/ WriteTakesChat
    \/ WriteExits

\* The scheduler runs the listenWrite goroutine whenever it can take a step,
\* and a write to the transport returns. Nothing is assumed of the peer, of
\* the processing function or of the caller of Close.
FairSpec == Spec /\ WF_vars(WriteLoop)

\* ------------------------------------------------------------- properties

IsPing(m) == m.type = PING
IsChat(m) == m.type = CHAT
Pings == SelectSeq(recvd, IsPing)
Chats == SelectSeq(recvd, IsChat)
SentBy(a) == {k \in 1..Len(sent) : sent[k].by = a}
WireBy(a) == {k \in 1..Len(wire) : wire[k].by = a}
SendActors == {a \in writing : a.kind \in {"writer", "worker"}}

\* C1: at most one invocation of send is in progress on the transport at any
\* time: the write loop's PONG send and a goroutine's reply send never
\* overlap, nor do the reply sends of two goroutines.
C1_SendsNeverOverlap == Cardinality(SendActors) <= 1

\* C2: every PING the read loop received has had exactly one PONG handed to
\* send, or is still on its way to it (offered on pingCh, or taken and not yet
\* sent); the write loop sends nothing else, and each PONG carries the type
\* PONG and no other field, whatever the PING carried.
C2_OnePongPerPing ==
    /\ Cardinality(SentBy(Writer))
         + (IF rpc = "sendPing" THEN 1 ELSE 0)
         + (IF wpc = "gotPing" THEN 1 ELSE 0) = Len(Pings)
    /\ \A k \in SentBy(Writer) :
         /\ sent[k].msg.type = PONG
         /\ sent[k].msg.author = ""
         /\ sent[k].msg.body = ""
         /\ sent[k].msg.id = ""
         /\ sent[k].msg.visible = FALSE
         /\ sent[k].msg.timestamp = 0
    /\ \A k \in WireBy(Writer) : wire[k].msg \in {PongMessage, Garbled}

\* C2 witness: two PINGs with a body and an author were received, each was
\* answered, and both PONGs are on the transport.
C2_Witness ==
    /\ Len(Pings) = 2
    /\ Pings[1].body # ""
    /\ Cardinality(SentBy(Writer)) = 2
    /\ Cardinality({k \in WireBy(Writer) : wire[k].msg = PongMessage}) = 2

\* C3: a goroutine whose processing function returned nil sends nothing; one
\* whose function returned a message hands exactly that message to send once,
\* and when send returns without error exactly that message is on the
\* transport, once, also when two goroutines reply concurrently. (Stated for
\* the time before Close is called, so that only calls of send can overlap.)
C3_RepliesOnTransportOnce ==
    \A i \in 1..Len(workers) :
      (cpc = "idle" /\ workers[i].pc = "done") =>
        IF workers[i].out = Null
        THEN SentBy(Worker(i)) = {} /\ WireBy(Worker(i)) = {}
        ELSE /\ Cardinality(SentBy(Worker(i))) = 1
             /\ \A k \in SentBy(Worker(i)) : sent[k].msg = workers[i].out
             /\ workers[i].res = "nil" =>
                  /\ Cardinality(WireBy(Worker(i))) = 1
                  /\ \A k \in WireBy(Worker(i)) : wire[k].msg = workers[i].out

\* C4: the goroutines are spawned one per received CHAT, in order, each
\* holding its CHAT; the processing function is called at most once per
\* goroutine, exactly once as soon as the goroutine has run, with that CHAT
\* as its argument, and for nothing that is not a CHAT.
C4_JobOncePerChat ==
    /\ Len(workers) + (IF rpc = "sendChat" THEN 1 ELSE 0) = Len(Chats)
    /\ \A i \in 1..Len(workers) :
         /\ workers[i].msg = Chats[i]
         /\ Cardinality({k \in 1..Len(jobCalls) : jobCalls[k].worker = i})
              = IF workers[i].pc = "start" THEN 0 ELSE 1
    /\ \A k \in 1..Len(jobCalls) :
         /\ jobCalls[k].worker \in 1..Len(workers)
         /\ jobCalls[k].arg = workers[jobCalls[k].worker].msg
         /\ jobCalls[k].arg.type = CHAT

\* C4 witness: a PING and a CHAT were received, and the function has been
\* called once, with the CHAT.
C4_Witness ==
    /\ Len(Pings) = 1
    /\ Len(Chats) = 1
    /\ Len(jobCalls) = 1
    /\ jobCalls[1].arg = Chats[1]

\* C5: Close returns nil when doneCh was closed before the deadline elapsed
\* and the timeout error when the deadline elapsed before doneCh was closed.
C5_CloseFollowsFiringOrder ==
    cret \in {"nil", "timeout"} =>
      /\ firstFired = "done" => cret = "nil"
      /\ firstFired = "ctx" => cret = "timeout"

\* C5, amended: Close returns nil only once doneCh is closed and the timeout
\* error only once the deadline has elapsed; when exactly one of the two has
\* happened as Close reaches its select it returns that one's result; when
\* neither has, the first to happen decides. (When both have, either result
\* may come back.)
C5_CloseResultAmended ==
    /\ cret = "nil" => doneClosed
    /\ cret = "timeout" => ctxDone
    /\ cret \in {"nil", "timeout"} => cwres = "nil" /\ cwait # "none"
    /\ (cwait = "ready" /\ csnap = {"done"}) => cret = "nil"
    /\ (cwait = "ready" /\ csnap = {"ctx"}) => cret = "timeout"
    /\ cwait = "woken" =>
         /\ csnap = {}
         /\ firstFired = "done" => cret = "nil"
         /\ firstFired = "ctx" => cret = "timeout"

\* C5 witness: doneCh was closed first and the deadline elapsed second, both
\* before Close reached its select, and Close returned the timeout error.
C5_Witness ==
    /\ csnap = {"done", "ctx"}
    /\ firstFired = "done"
    /\ cret = "timeout"

\* C6: when the write of the close frame fails, Close has returned the I/O
\* error without ever reaching its select: it waited for neither doneCh nor
\* the deadline and returned neither nil nor the timeout error; and Close
\* returns the I/O error in no other case.
C6_CloseWriteErrorReturnsAtOnce ==
    /\ cwres = "err" => (cpc = "returned" /\ cret = "ioerr" /\ cwait = "none")
    /\ cret = "ioerr" => cwres = "err"

\* C6 witness: the close frame's write failed while doneCh was already closed
\* and the deadline already elapsed, and Close returned the I/O error.
C6_Witness ==
    /\ cwres = "err"
    /\ cret = "ioerr"
    /\ doneClosed
    /\ ctxDone

\* A configuration with an empty scheme, an empty host, no processing
\* function, or a URL that does not parse.
InvalidConfig(c) ==
    \/ c.Scheme = ""
    \/ c.Host = ""
    \/ ~c.CommandExecutorFunc
    \/ ~UrlParses(c.Scheme, c.Host, c.Path)

\* C7: NewChatService on an invalid configuration returns validate's error,
\* creates no session and never calls the dialer; the dialer is called at
\* most once, and only for a valid configuration.
C7_InvalidConfigNoDial ==
    /\ (newRet # "pending" /\ InvalidConfig(config)) =>
         /\ newRet = "configErr"
         /\ configErr # "nil"
         /\ ~session
         /\ dialCount = 0
    /\ InvalidConfig(config) => (dialCount = 0 /\ ~listening)
    /\ (newRet # "pending" /\ ~InvalidConfig(config)) =>
         (dialCount = 1 /\ newRet \in {"ok", "dialErr"})

\* C7 witness: NewChatService has returned the missing-host error for a
\* configuration whose only fault is its empty host.
C7_Witness ==
    /\ newRet = "configErr"
    /\ configErr = "missing websocket host"
    /\ config.Scheme = "wss"
    /\ config.Host = ""
    /\ config.Path = "/entry"
    /\ config.CommandExecutorFunc
    /\ dialCount = 0

\* C8: doneCh is closed exactly when the read loop has returned, by exactly
\* one call of close, whether ReadJSON failed with a normal closure or with
\* any other error; it is never closed while the loop is running.
C8_DoneExactlyOnceAtReadExit ==
    /\ doneClosed <=> rpc = "done"
    /\ doneCloses = IF rpc = "done" THEN 1 ELSE 0
    /\ rpc = "done" <=> rexit \in {"normal", "abnormal"}

\* C8 witness: the read loop has ended on an error that is no normal closure,
\* after routing a message, and doneCh is closed.
C8_Witness ==
    /\ rexit = "abnormal"
    /\ rpc = "done"
    /\ doneClosed
    /\ Len(recvd) > 0

C10_IgnoredKindsHaveNoEffect ==
    /\ [][(/\ Len(recvd') = Len(recvd) + 1
           /\ recvd'[Len(recvd')].type \in {SYSTEM, NAME_CHANGE})
          => (/\ rpc' = "read"
              /\ UNCHANGED <<sent, wire, writing, workers, jobCalls, warnings,
                             errlogs, wpc, pingsTaken, doneClosed>>)]_vars
    /\ [](/\ Len(sent) <= Len(Pings) + Len(Chats)
          /\ Len(workers) <= Len(Chats)
          /\ pingsTaken <= Len(Pings))

\* C10 witness: a SYSTEM and a NAME_CHANGE message were received, and nothing
\* was sent, spawned or logged; the loop is reading.
C10_Witness ==
    /\ Len(recvd) = 2
    /\ recvd[1].type = SYSTEM
    /\ recvd[2].type = NAME_CHANGE
    /\ rpc = "read"
    /\ sent = <<>>
    /\ workers = <<>>
    /\ warnings = 0
    /\ errlogs = 0

\* C11: the step in which the read loop decodes a message whose type is not
\* PING, CHAT, SYSTEM or NAME_CHANGE logs exactly one warning and nothing
\* else, sends nothing, puts nothing on pingCh or chatCh, spawns nothing, and
\* leaves the loop running and ready to read the next message; the warnings
\* logged are as many as such messages received.
UnknownType(m) == m.type \notin {PING, CHAT, SYSTEM, NAME_CHANGE}
Unknowns == SelectSeq(recvd, UnknownType)
C11_UnknownKindsWarnOnce ==
    /\ [][(/\ Len(recvd') = Len(recvd) + 1
           /\ UnknownType(recvd'[Len(recvd')]))
          => (/\ warnings' = warnings + 1
              /\ rpc' = "read"
              /\ UNCHANGED <<sent, wire, writing, workers, jobCalls, errlogs,
                             wpc, pingsTaken, pingCh, chatCh, doneClosed,
                             rexit>>)]_vars
    /\ [](warnings = Len(Unknowns))

\* C11 witness: an inbound PONG and a message with an empty type were
\* received; two warnings were logged, nothing was sent or spawned and the
\* loop is reading.
C11_Witness ==
    /\ Len(recvd) = 2
    /\ recvd[1].type = PONG
    /\ recvd[2].type = ""
    /\ warnings = 2
    /\ rpc = "read"
    /\ sent = <<>>
    /\ workers = <<>>
    /\ ~doneClosed

\* C12: once doneCh is closed the listenWrite goroutine eventually ends (it
\* returns, or the process has died under it), so that both loops are gone;
\* and once it has returned it takes nothing more off pingCh or chatCh.
C12_WriteLoopExitsAfterDone ==
    /\ doneClosed ~> (wpc = "exited" \/ crashed)
    /\ [][wpc = "exited" =>
            (/\ wpc' = "exited"
             /\ pingsTaken' = pingsTaken
             /\ Len(workers') = Len(workers)
             /\ UNCHANGED <<pingCh, chatCh>>)]_vars
    /\ [](wpc = "exited" => (doneClosed /\ rpc = "done"))

\* C12 witness: both loops have returned after a PING was answered and a
\* goroutine was spawned.
C12_Witness ==
    /\ wpc = "exited"
    /\ rpc = "done"
    /\ pingsTaken = 1
    /\ Len(workers) = 1

\* C13: a failed send does not end the write loop. The step in which a send
\* of a PONG or of a reply returns an error logs it and leaves the write loop
\* at (or on its way back to) its select; every failed send has been logged;
\* the loop returns only once doneCh is closed; and after a failed send a
\* PING or CHAT that the read loop hands over is still taken.
FailedSends == {k \in 1..Len(sent) : sent[k].res = "err"}
SendFailsNow ==
    \E k \in 1..Len(sent) :
        /\ sent[k].res = "pending"
        /\ k <= Len(sent')
        /\ sent'[k].res = "err"
PongFailsNow == wpc = "sending" /\ sent[OpenSend(Writer)].res # sent'[OpenSend(Writer)].res
                   /\ sent'[OpenSend(Writer)].res = "err"
C13_FailedSendKeepsWriteLoop ==
    /\ [][SendFailsNow =>
            (/\ errlogs' = errlogs + 1
             /\ wpc # "exited" => wpc' # "exited"
             /\ pingsTaken' = pingsTaken
             /\ Len(workers') = Len(workers))]_vars
    /\ [][(wpc = "sending" /\ PongFailsNow) => wpc' = "select"]_vars
    /\ [](errlogs = Cardinality(FailedSends)
                      + (IF rexit = "abnormal" THEN 1 ELSE 0))
    /\ [](wpc = "exited" => doneClosed)
    /\ (FailedSends # {} /\ rpc \in {"sendPing", "sendChat"})
          ~> (rpc = "read" \/ crashed)

\* C13 witness: the send of the first PONG failed and was logged, and the
\* write loop has since taken a second PING and sent its PONG.
C13_Witness ==
    /\ Len(sent) = 2
    /\ sent[1].by = Writer
    /\ sent[1].res = "err"
    /\ sent[2].by = Writer
    /\ sent[2].res = "nil"
    /\ pingsTaken = 2
    /\ errlogs = 1
    /\ wpc = "select"
    /\ ~doneClosed

\* C13 second case: the send of a reply failed, and the write loop has since
\* answered a PING.
C13_WitnessReply ==
    /\ Len(sent) = 2
    /\ sent[1].by = Worker(1)
    /\ sent[1].res = "err"
    /\ sent[2].by = Writer
    /\ sent[2].res = "nil"
    /\ ~doneClosed

\* C14: routing never blocks for ever. Whenever the read loop is blocked in
\* its send on pingCh or chatCh, the write loop eventually receives from that
\* channel and the read loop goes on to its next read (unless the process has
\* died under both); the blocked send can end in no other way, and the read
\* loop is never blocked on a channel whose receiver has returned.
Routing == rpc \in {"sendPing", "sendChat"}
C14_RoutingNeverBlocksForEver ==
    /\ Routing ~> (rpc = "read" \/ crashed)
    /\ [][Routing => rpc' \in {rpc, "read"}]_vars
    /\ [](Routing => (/\ wpc \in {"select", "gotPing", "sending"}
                      /\ ~doneClosed))

\* C14 witness: a PING and then a CHAT were routed, each was taken by the
\* write loop, and the read loop is at its next read.
C14_Witness ==
    /\ Len(recvd) = 2
    /\ recvd[1].type = PING
    /\ recvd[2].type = CHAT
    /\ pingsTaken = 1
    /\ Len(workers) = 1
    /\ rpc = "read"
    /\ wpc \in {"select", "gotPing", "sending"}

\* C15: the deadline of Close cancels nothing but the wait of its caller.
\* No step of Close and no expiry of its context changes a goroutine spawned
\* for a CHAT; and once Close has returned, with nil, with the timeout error
\* or with a write error, a goroutine that has not called the processing
\* function yet can still call it, one that holds a non-nil reply can still
\* enter its send, and one inside its send can still have it return.
C15_CloseCancelsNoUnit ==
    /\ [][(cpc' # cpc \/ ctxDone' # ctxDone \/ cret' # cret)
            => UNCHANGED <<workers, jobCalls>>]_vars
    /\ [](\A i \in 1..Len(workers) :
            (cpc = "returned" /\ ~crashed) =>
               /\ workers[i].pc = "start" => ENABLED WorkerJob(i)
               /\ workers[i].pc = "ready" => ENABLED WorkerSendBegin(i)
               /\ workers[i].pc = "sending" =>
                     ENABLED (\E o \in AllOutcomes : WorkerSendEnd(i, o)))

\* C15 witness: a goroutine spawned before Close returned the timeout error
\* called the processing function and entered the send of its reply after
\* that return.
C15_Witness ==
    /\ cpc = "returned"
    /\ cret = "timeout"
    /\ \E i \in 1..Len(workers) :
          /\ ~workers[i].afterClose
          /\ \E k \in 1..Len(jobCalls) :
                jobCalls[k].worker = i /\ jobCalls[k].afterClose
          /\ \E k \in 1..Len(sent) :
                sent[k].by = Worker(i) /\ sent[k].afterClose

\* C16: a goroutine spawned for a CHAT runs apart from the write loop. With
\* any number of goroutines still inside the processing function, the write
\* loop at its select can take the PING or the CHAT the read loop is handing
\* over, and can start and finish the send of a PONG; spawning a goroutine
\* waits for none of the others and leaves them as they are, and the write
\* loop is back at its select in the same step.
InFlight == {i \in 1..Len(workers) : workers[i].pc # "done"}
C16_UnitsRunApartFromWriteLoop ==
    /\ []((~crashed /\ wpc = "select" /\ rpc = "sendPing")
             => ENABLED WriteTakesPing)
    /\ []((~crashed /\ wpc = "select" /\ rpc = "sendChat")
             => ENABLED WriteTakesChat)
    /\ []((~crashed /\ wpc = "gotPing") => ENABLED WritePongBegin)
    /\ []((~crashed /\ wpc = "sending")
             => ENABLED (\E o \in AllOutcomes : WritePongEnd(o)))
    /\ [][Len(workers') > Len(workers) =>
            (/\ Len(workers') = Len(workers) + 1
             /\ \A i \in 1..Len(workers) : workers'[i] = workers[i]
             /\ workers'[Len(workers')].pc = "start"
             /\ wpc' = "select")]_vars

\* C16 witness: two goroutines are inside the processing function at once,
\* the second spawned while the first had not returned, and the write loop is
\* at its select.
C16_Witness ==
    /\ Cardinality(InFlight) = 2
    /\ \A i \in InFlight : workers[i].pc = "start"
    /\ jobCalls = <<>>
    /\ wpc = "select"
    /\ ~doneClosed

\* C16 second case: a PING was answered with a PONG while the goroutine of an
\* earlier CHAT had not returned from the processing function.
C16_WitnessPong ==
    /\ Len(recvd) = 2
    /\ recvd[1].type = CHAT
    /\ recvd[2].type = PING
    /\ workers[1].pc = "start"
    /\ Len(sent) = 1
    /\ sent[1].by = Writer
    /\ sent[1].res = "nil"

\* The state of a session, read off the program: CLOSED once doneCh is
\* closed, CLOSING once Close has been called, OPEN once the dial has
\* succeeded, CONNECTING before.
SessionState ==
    CASE doneClosed -> "CLOSED"
      [] cpc # "idle" -> "CLOSING"
      [] session -> "OPEN"
      [] OTHER -> "CONNECTING"
Rank(st) ==
    CASE st = "CONNECTING" -> 0
      [] st = "OPEN" -> 1
      [] st = "CLOSING" -> 2
      [] st = "CLOSED" -> 3

\* C17 as stated: the state only advances, doneCh is closed only in a session
\* that Close was called on or by the receipt of a normal closure from the
\* peer, and CLOSED is final.
C17_ClosedOnlyFromClosing ==
    /\ [][Rank(SessionState') >= Rank(SessionState)]_vars
    /\ [][(~doneClosed /\ doneClosed') => (cpc # "idle" \/ rexit' = "normal")]_vars
    /\ [][SessionState = "CLOSED" => SessionState' = "CLOSED"]_vars

\* C17, amended: the state only advances along CONNECTING, OPEN, CLOSING,
\* CLOSED, leaving CONNECTING for OPEN only; it becomes CLOSED exactly when
\* the read loop returns, from OPEN or from CLOSING, on a normal closure or on
\* any other read error; and CLOSED is final.
C17_StateOnlyAdvances ==
    /\ [][Rank(SessionState') >= Rank(SessionState)]_vars
    /\ [][SessionState = "CONNECTING"
            => SessionState' \in {"CONNECTING", "OPEN"}]_vars
    /\ [][(~doneClosed /\ doneClosed') =>
            (/\ SessionState \in {"OPEN", "CLOSING"}
             /\ rpc = "read"
             /\ rpc' = "done"
             /\ rexit' \in {"normal", "abnormal"})]_vars
    /\ [](doneClosed <=> rpc = "done")
    /\ [][SessionState = "CLOSED" => SessionState' = "CLOSED"]_vars

\* C17 witness: doneCh was closed by a read error that is not a normal
\* closure, in a session on which Close was never called.
C17_Witness ==
    /\ SessionState = "CLOSED"
    /\ cpc = "idle"
    /\ rexit = "abnormal"
    /\ Len(recvd) > 0

\* C18: the write of the close frame by Close is never in progress on the
\* transport at the same time as a send by the write loop (a PONG) or by a
\* goroutine spawned for a CHAT (a reply).
C18_CloseWriteNeverOverlapsSend == ~(Closer \in writing /\ SendActors # {})

\* C19: pingCh and chatCh hold nothing: a routed PING or CHAT stays with the
\* read loop, blocked in its send, until the write loop receives it, and only
\* then does the read loop read on. So at most one routed message (the last
\* one received) awaits its hand-off, every earlier PING has been taken and
\* every earlier CHAT has its goroutine, the goroutines were spawned in the
\* order of their CHATs, and the k-th PONG is sent after the k-th PING was
\* taken and before the next one is.
PendingPing == IF rpc = "sendPing" THEN 1 ELSE 0
PendingChat == IF rpc = "sendChat" THEN 1 ELSE 0
PongInHand == IF wpc = "gotPing" THEN 1 ELSE 0
C19_RendezvousKeepsOrder ==
    /\ [](pingCh = <<>> /\ chatCh = <<>>)
    /\ [](Routing =>
            (/\ rmsg = recvd[Len(recvd)]
             /\ rpc = "sendPing" <=> rmsg.type = PING
             /\ rpc = "sendChat" <=> rmsg.type = CHAT))
    /\ [](pingsTaken = Len(Pings) - PendingPing)
    /\ [](Len(workers) = Len(Chats) - PendingChat)
    /\ [](\A i \in 1..Len(workers) : workers[i].msg = Chats[i])
    /\ [](Cardinality(SentBy(Writer)) = pingsTaken - PongInHand)
    /\ [][Len(recvd') > Len(recvd) => (rpc = "read" /\ ~Routing)]_vars

\* C19 witness: the read loop holds a CHAT, blocked in its send on chatCh,
\* while the write loop is still inside the send of the PONG for the PING
\* received before it; no goroutine has been spawned yet.
C19_Witness ==
    /\ Len(recvd) = 2
    /\ recvd[1].type = PING
    /\ recvd[2].type = CHAT
    /\ rpc = "sendChat"
    /\ wpc = "sending"
    /\ workers = <<>>

\* C19 second case: two CHATs were handed over one after the other and their
\* goroutines hold them in the order received.
C19_WitnessOrder ==
    /\ Len(recvd) = 2
    /\ recvd[1].type = CHAT
    /\ recvd[2].type = CHAT
    /\ recvd[1] # recvd[2]
    /\ Len(workers) = 2
    /\ workers[1].msg = recvd[1]
    /\ workers[2].msg = recvd[2]

====
